---- MODULE Spec2Model ----
(***************************************************************************)
(* Model of wifictl.py (raspiwifi): the configuration block editor         *)
(* (replace_in_file, add_entry_to_config, remove_entry_from_config), the   *)
(* mode controller (set_cli_mode, set_ap_mode, get_mode,                   *)
(* set_ap_credentials) and the network scanner (list_available_wifis).     *)
(*                                                                         *)
(* File contents and command outputs are sequences of tokens.  A token is  *)
(* a pair <<kind, text>>: one character class the regular expressions of   *)
(* the source tell apart (newline, tab, double quote), one marker          *)
(* "#<begin_ID_entry>" / "#<end_ID_entry>", or a run of ordinary           *)
(* characters.  No marker is a substring of another token's text, so the   *)
(* regular expressions can be matched token by token.                      *)
(*                                                                         *)
(* External commands started with run(...) are modelled on their exit-0    *)
(* path: the handlers are followed statement by statement, each command    *)
(* is recorded in `trace` and has its effect on the services.              *)
(***************************************************************************)
EXTENDS Integers, Sequences, FiniteSets, TLC

VARIABLES
    file, edits, nEdits,                       \* block-editor harness
    dhcpcd_conf, wpa_conf, hostapd_conf,       \* the three managed files
    svc,                                       \* service states
    pc, op, trace, result,                     \* the running handler
    pre, lastTransition, nCalls,               \* history of the calls
    i, cells, unique_cells                     \* locals of list_available_wifis

edVars   == <<file, edits, nEdits>>
fileVars == <<dhcpcd_conf, wpa_conf, hostapd_conf>>
callVars == <<pc, op, trace, result>>
histVars == <<pre, lastTransition, nCalls>>
scanVars == <<i, cells, unique_cells>>
vars     == <<file, edits, nEdits, dhcpcd_conf, wpa_conf, hostapd_conf, svc,
              pc, op, trace, result, pre, lastTransition, nCalls,
              i, cells, unique_cells>>

---------------------------------------------------------------------------
(* Bounds of the model *)
MaxInitPieces == 3   \* pieces an initial file of the editor harness is built of
MaxEdits      == 3   \* editor calls in a run of the harness
MaxCalls      == 4   \* controller calls in a run
MaxScanLen    == 3   \* cells one scan returns

---------------------------------------------------------------------------
(* Text *)
NL    == <<"nl", "">>
TAB   == <<"tab", "">>
QUOTE == <<"quote", "">>
Ch(c)  == <<"ch", c>>
Lit(s) == <<"lit", s>>
BeginMarker(id) == <<"begin", id>>     \* "#<begin_{id}_entry>"
EndMarker(id)   == <<"end", id>>       \* "#<end_{id}_entry>"

Kind(t) == t[1]

RECURSIVE Flatten(_)
Flatten(ss) == IF ss = <<>> THEN <<>> ELSE Head(ss) \o Flatten(Tail(ss))

RECURSIVE SeqsUpTo(_, _)
SeqsUpTo(S, n) ==
    IF n = 0 THEN {<<>>}
    ELSE LET r == SeqsUpTo(S, n - 1)
         IN  r \cup {Append(s, x) : s \in {t \in r : Len(t) = n - 1}, x \in S}

Count(s, t) == Cardinality({k \in 1..Len(s) : s[k] = t})

Contains(s, sub) ==
    \E k \in 0..(Len(s) - Len(sub)) : SubSeq(s, k + 1, k + Len(sub)) = sub

EndsWith(s, suf) ==
    Len(s) >= Len(suf) /\ SubSeq(s, Len(s) - Len(suf) + 1, Len(s)) = suf

Max(S) == CHOOSE x \in S : \A y \in S : y <= x
Min(S) == CHOOSE x \in S : \A y \in S : x <= y

---------------------------------------------------------------------------
(* Regular expressions of the source, matched at one position.             *)
(* Each returns the index of the last token of the match starting at p,    *)
(* or 0 when the pattern does not match at p.                              *)

\* number of consecutive tokens from p whose kind is in kinds (neg = FALSE)
\* or not in kinds (neg = TRUE): a greedy character-class repetition
RECURSIVE Span(_, _, _, _)
Span(s, p, kinds, neg) ==
    IF p > Len(s) \/ ((Kind(s[p]) \in kinds) = neg) THEN 0
    ELSE 1 + Span(s, p + 1, kinds, neg)

\* r"#<begin_{id}_entry>.+#<end_{id}_entry>" with re.DOTALL: ".+" is greedy,
\* so the match runs to the last end marker with a token in between
BlockMatchEnd(s, p, id) ==
    IF s[p] # BeginMarker(id) THEN 0
    ELSE LET qs == {q \in (p + 2)..Len(s) : s[q] = EndMarker(id)}
         IN  IF qs = {} THEN 0 ELSE Max(qs)

\* the same pattern with ".+?": the match stops at the first end marker
ShortestBlockEnd(s, p, id) ==
    IF s[p] # BeginMarker(id) THEN 0
    ELSE LET qs == {q \in (p + 2)..Len(s) : s[q] = EndMarker(id)}
         IN  IF qs = {} THEN 0 ELSE Min(qs)

\* r'\t*#psk="[^\n"]+"\n'
PskMatchEnd(s, p) ==
    LET j == p + Span(s, p, {"tab"}, FALSE)
        r == Span(s, j + 2, {"nl", "quote"}, TRUE)
    IN  IF /\ j + 3 + r <= Len(s)
           /\ s[j] = Lit("#psk=")
           /\ s[j + 1] = QUOTE
           /\ r >= 1
           /\ s[j + 2 + r] = QUOTE
           /\ s[j + 3 + r] = NL
        THEN j + 3 + r ELSE 0

\* r"\b{key}=[^\n]+\b": the key at a word boundary and the rest of its line
SettingMatchEnd(s, p, key) ==
    LET r == Span(s, p + 1, {"nl"}, TRUE)
    IN  IF s[p] = Lit(key) /\ r >= 1 THEN p + r ELSE 0

MatchEnd(pat, s, p) ==
    CASE pat.kind = "block"   -> BlockMatchEnd(s, p, pat.arg)
      [] pat.kind = "psk"     -> PskMatchEnd(s, p)
      [] pat.kind = "setting" -> SettingMatchEnd(s, p, pat.arg)

\* re.sub(pattern, target, content): leftmost matches, left to right
RECURSIVE ReSubFrom(_, _, _, _)
ReSubFrom(pat, target, s, p) ==
    IF p > Len(s) THEN <<>>
    ELSE LET q == MatchEnd(pat, s, p)
         IN  IF q >= p THEN target \o ReSubFrom(pat, target, s, q + 1)
             ELSE <<s[p]>> \o ReSubFrom(pat, target, s, p + 1)

\* replace_in_file: the content the file holds after the call
replace_in_file(content, pat, target) == ReSubFrom(pat, target, content, 1)

BlockPattern(id)    == [kind |-> "block", arg |-> id]
PskPattern          == [kind |-> "psk", arg |-> ""]
SettingPattern(key) == [kind |-> "setting", arg |-> key]

\* a removal that deletes nothing
remove_entry_noop(content, id) == content

remove_entry_from_config(content, id) ==
    replace_in_file(content, BlockPattern(id), <<>>)

\* what add_entry_to_config appends
EntryBlock(entry, id) ==
    <<BeginMarker(id), NL>> \o entry \o <<NL, EndMarker(id), NL>>

add_entry_to_config(entry, content, id) ==
    remove_entry_from_config(content, id) \o EntryBlock(entry, id)

---------------------------------------------------------------------------
(* Block-editor harness: add_entry_to_config and remove_entry_from_config  *)
(* applied to one file, with the last two calls remembered in `edits`.     *)
EdIds     == {"rpiwifi", "alt"}
EdEntries == {<<>>, <<Ch("x")>>, <<Ch("x"), NL, Ch("y")>>}

InitPieces ==
    {<<Ch("a")>>, <<NL>>, <<BeginMarker("rpiwifi")>>, <<EndMarker("rpiwifi")>>,
     EntryBlock(<<Ch("x")>>, "rpiwifi")}

HasMarker(s, id) == Count(s, BeginMarker(id)) + Count(s, EndMarker(id)) > 0

InitFiles  == {Flatten(ps) : ps \in SeqsUpTo(InitPieces, MaxInitPieces)}
CleanFiles == {f \in InitFiles : \A id \in EdIds : ~HasMarker(f, id)}

LastTwo(s) == IF Len(s) <= 2 THEN s ELSE SubSeq(s, Len(s) - 1, Len(s))

Edit(name, entry, id) ==
    [op |-> name, entry |-> entry, id |-> id, pre |-> file]

AddEntry(entry, id) ==
    /\ nEdits < MaxEdits
    /\ file' = add_entry_to_config(entry, file, id)
    /\ edits' = LastTwo(Append(edits, Edit("write", entry, id)))
    /\ nEdits' = nEdits + 1
    /\ UNCHANGED <<fileVars, svc, callVars, histVars, scanVars>>

RemoveEntry(id) ==
    /\ nEdits < MaxEdits
    /\ file' = remove_entry_from_config(file, id)
    /\ edits' = LastTwo(Append(edits, Edit("remove", <<>>, id)))
    /\ nEdits' = nEdits + 1
    /\ UNCHANGED <<fileVars, svc, callVars, histVars, scanVars>>

---------------------------------------------------------------------------
(* Arguments: a Python string or None *)
None_  == [none |-> TRUE, text |-> <<>>]
Str(t) == [none |-> FALSE, text |-> t]

\* a test for None alone: "" passes
IsNotNone(a) == ~a.none

\* Python truth value of an argument: None and "" are false
Truthy(a) == ~a.none /\ a.text # <<>>

Call(name, a, b) == [name |-> name, a |-> a, b |-> b]

IDENTIFIER == "rpiwifi"      \* the default identifier of the block editor

\* DHCPCD_CONF_ENTRY_TEMPLATE.format(iface=...).strip(): the static-IP block
dhcpcd_conf_entry ==
    <<Lit("interface wlan0"), NL,
      Lit("    static ip_address=192.168.4.1/24"), NL,
      Lit("    nohook wpa_supplicant")>>

\* the derived key: a function of the network name and the passphrase
PskHash(ssid, password) == <<"hash", ToString(<<ssid, password>>)>>

PlainPskLine(password) ==
    <<TAB, Lit("#psk="), QUOTE>> \o password \o <<QUOTE, NL>>

KeyLine(ssid, password) == <<TAB, Lit("psk="), PskHash(ssid, password), NL>>

\* the output of /usr/bin/wpa_passphrase ssid password
wpa_passphrase(ssid, password) ==
    <<Lit("network={"), NL, TAB, Lit("ssid="), QUOTE>> \o ssid \o <<QUOTE, NL>>
    \o PlainPskLine(password) \o KeyLine(ssid, password) \o <<Lit("}"), NL>>

\* re.sub(r'\t*#psk="[^\n"]+"\n', "", entry)
ScrubPlainPsk(entry) == ReSubFrom(PskPattern, <<>>, entry, 1)

\* the two modes swapped
get_mode_swapped == IF svc.hostapd THEN "CLI" ELSE "AP"

get_mode == IF svc.hostapd THEN "AP" ELSE "CLI"

Snapshot ==
    [dhcpcd_conf |-> dhcpcd_conf, wpa_conf |-> wpa_conf,
     hostapd_conf |-> hostapd_conf, svc |-> svc]

---------------------------------------------------------------------------
(* Inputs of the controller *)
Ssids     == {None_, Str(<<>>), Str(<<Ch("home")>>)}
Passwords == {None_, Str(<<>>), Str(<<Ch("secret")>>),
              Str(<<Ch("se"), QUOTE, Ch("cret")>>)}
ApNames     == {Str(<<Ch("pinet")>>), Str(<<Ch("lab")>>)}
ApPasswords == {Str(<<Ch("raspberry")>>)}

InitDhcpcdConfs == {<<>>, <<Lit("hostname"), NL>>}
InitHostapdConf ==
    <<Lit("interface=wlan0"), NL, Lit("ssid="), Ch("old"), NL,
      Lit("ignore_broadcast_ssid="), Ch("0"), NL,
      Lit("wpa_passphrase="), Ch("oldpass"), NL>>

---------------------------------------------------------------------------
(* The handlers, one action per statement *)

\* a handler is entered: the call is recorded and the state before it kept
Enter(name, a, b) ==
    /\ pc = "idle"
    /\ nCalls < MaxCalls
    /\ op' = Call(name, a, b)
    /\ trace' = <<>>
    /\ pre' = Snapshot
    /\ nCalls' = nCalls + 1
    /\ UNCHANGED <<edVars, scanVars>>

\* one statement that runs a command or edits a file and goes on
Step(here, next, events, svc2) ==
    /\ pc = here
    /\ pc' = next
    /\ trace' = trace \o events
    /\ svc' = svc2
    /\ UNCHANGED <<op, result, pre, lastTransition, nCalls>>
    /\ UNCHANGED <<edVars, scanVars>>

\* the last statement of a handler
Return(here, events, svc2, value, transition) ==
    /\ pc = here
    /\ pc' = "idle"
    /\ trace' = trace \o events
    /\ svc' = svc2
    /\ result' = value
    /\ lastTransition' = transition
    /\ UNCHANGED <<op, pre, nCalls>>
    /\ UNCHANGED <<edVars, scanVars>>

(* set_cli_mode *)
SetCliModeCall(ssid, password) ==
    /\ Enter("set_cli_mode", ssid, password)
    /\ IF ~Truthy(password)
       THEN pc' = "idle" /\ result' = "False"
       ELSE pc' = "cli65" /\ result' = "pending"
    /\ UNCHANGED <<fileVars, svc, lastTransition>>

Cli65 ==
    /\ Step("cli65", "cli66", <<"dhcpcd --release">>, svc)
    /\ UNCHANGED fileVars

Cli66 ==
    /\ Step("cli66", "cli68", <<"service dhcpcd stop">>,
            [svc EXCEPT !.dhcpcd = FALSE])
    /\ UNCHANGED fileVars

Cli68 ==
    /\ IF Truthy(op.a)
       THEN /\ Step("cli68", "cli74",
                    <<"wpa_passphrase", "edit wpa_supplicant.conf">>, svc)
            /\ wpa_conf' = add_entry_to_config(
                   ScrubPlainPsk(wpa_passphrase(op.a.text, op.b.text)),
                   wpa_conf, IDENTIFIER)
       ELSE /\ Step("cli68", "cli74", <<>>, svc)
            /\ wpa_conf' = wpa_conf
    /\ UNCHANGED <<dhcpcd_conf, hostapd_conf>>

\* the statement without the removal
Cli74_Skip ==
    /\ Step("cli74", "cli77", <<"edit dhcpcd.conf">>, svc)
    /\ UNCHANGED fileVars

Cli74 ==
    /\ Step("cli74", "cli77", <<"edit dhcpcd.conf">>, svc)
    /\ dhcpcd_conf' = remove_entry_from_config(dhcpcd_conf, IDENTIFIER)
    /\ UNCHANGED <<wpa_conf, hostapd_conf>>

Cli77 ==
    /\ Step("cli77", "cli78", <<"systemctl stop hostapd dnsmasq">>,
            [svc EXCEPT !.hostapd = FALSE, !.dnsmasq = FALSE])
    /\ UNCHANGED fileVars

Cli78 ==
    /\ Step("cli78", "cli79", <<"systemctl disable hostapd dnsmasq">>,
            [svc EXCEPT !.enabled = FALSE])
    /\ UNCHANGED fileVars

Cli79 ==
    /\ Step("cli79", "cli82", <<"service dhcpcd start">>,
            [svc EXCEPT !.dhcpcd = TRUE])
    /\ UNCHANGED fileVars

Cli82 ==
    /\ Return("cli82", <<"wpa_cli reconfigure">>, svc, "True", "CLI")
    /\ UNCHANGED fileVars

(* set_ap_mode *)
SetApModeCall ==
    /\ Enter("set_ap_mode", None_, None_)
    /\ pc' = "ap91"
    /\ result' = "pending"
    /\ UNCHANGED <<fileVars, svc, lastTransition>>

Ap91 ==
    /\ Step("ap91", "ap92", <<"dhcpcd --release">>, svc)
    /\ UNCHANGED fileVars

Ap92 ==
    /\ Step("ap92", "ap94", <<"service dhcpcd stop">>,
            [svc EXCEPT !.dhcpcd = FALSE])
    /\ UNCHANGED fileVars

Ap94 ==
    /\ Step("ap94", "ap97", <<"edit dhcpcd.conf">>, svc)
    /\ dhcpcd_conf' = add_entry_to_config(dhcpcd_conf_entry, dhcpcd_conf, IDENTIFIER)
    /\ UNCHANGED <<wpa_conf, hostapd_conf>>

Ap97 ==
    /\ Step("ap97", "ap98", <<"systemctl enable hostapd dnsmasq">>,
            [svc EXCEPT !.enabled = TRUE])
    /\ UNCHANGED fileVars

Ap98 ==
    /\ Step("ap98", "ap99", <<"systemctl start hostapd dnsmasq">>,
            [svc EXCEPT !.hostapd = TRUE, !.dnsmasq = TRUE])
    /\ UNCHANGED fileVars

Ap99 ==
    /\ Return("ap99", <<"service dhcpcd start">>,
              [svc EXCEPT !.dhcpcd = TRUE], "None", "AP")
    /\ UNCHANGED fileVars

(* get_mode *)
GetModeCall ==
    /\ Enter("get_mode", None_, None_)
    /\ pc' = "idle"
    /\ result' = get_mode
    /\ UNCHANGED <<fileVars, svc, lastTransition>>

(* set_ap_credentials *)
SetApCredentialsCall(wifi_name, wifi_password) ==
    /\ Enter("set_ap_credentials", wifi_name, wifi_password)
    /\ pc' = "cred108"
    /\ result' = "pending"
    /\ UNCHANGED <<fileVars, svc, lastTransition>>

Cred108 ==
    /\ Step("cred108", "cred109", <<"edit hostapd.conf ssid">>, svc)
    /\ hostapd_conf' = replace_in_file(hostapd_conf, SettingPattern("ssid="),
                                       <<Lit("ssid=")>> \o op.a.text)
    /\ UNCHANGED <<dhcpcd_conf, wpa_conf>>

Cred109 ==
    /\ Step("cred109", "cred111", <<"edit hostapd.conf wpa_passphrase">>, svc)
    /\ hostapd_conf' = replace_in_file(hostapd_conf, SettingPattern("wpa_passphrase="),
                                       <<Lit("wpa_passphrase=")>> \o op.b.text)
    /\ UNCHANGED <<dhcpcd_conf, wpa_conf>>

Cred111 ==
    /\ IF get_mode = "AP"
       THEN Step("cred111", "cred112", <<"systemctl is-active hostapd">>, svc)
       ELSE Return("cred111", <<"systemctl is-active hostapd">>, svc, "None",
                   lastTransition)
    /\ UNCHANGED fileVars

Cred112 ==
    /\ Return("cred112", <<"systemctl restart hostapd">>,
              [svc EXCEPT !.hostapd = TRUE], "None", lastTransition)
    /\ UNCHANGED fileVars

---------------------------------------------------------------------------
(* list_available_wifis *)
Attempts == 3                    \* for i in range(3)

Cell(ssid, quality) == [ssid |-> ssid, quality |-> quality]
Qualities == {1, 2, 3}
Cells     == {Cell(n, q) : n \in {"A", "B"}, q \in Qualities}
ScanLists == SeqsUpTo(Cells, MaxScanLen)

\* a dict that keeps the first value of a key
DictPutKeepFirst(d, cell) ==
    IF \E k \in 1..Len(d) : d[k].ssid = cell.ssid THEN d ELSE Append(d, cell)

\* d[cell.ssid] = cell on an insertion-ordered dict: a known key keeps its
\* place and takes the new value, a new key goes last
DictPut(d, cell) ==
    IF \E k \in 1..Len(d) : d[k].ssid = cell.ssid
    THEN [k \in 1..Len(d) |-> IF d[k].ssid = cell.ssid THEN cell ELSE d[k]]
    ELSE Append(d, cell)

\* list({cell.ssid: cell for cell in cells}.values())
RECURSIVE UniqueBySsid(_, _)
UniqueBySsid(d, cs) ==
    IF cs = <<>> THEN d ELSE UniqueBySsid(DictPut(d, Head(cs)), Tail(cs))

\* place of x in a list sorted by descending quality: behind every cell at
\* least as good (the sort is stable)
InsertByQuality(sorted, x) ==
    LET k == Cardinality({j \in 1..Len(sorted) : sorted[j].quality >= x.quality})
    IN  SubSeq(sorted, 1, k) \o <<x>> \o SubSeq(sorted, k + 1, Len(sorted))

\* cs.sort(key=lambda cell: cell.quality, reverse=True)
RECURSIVE SortFrom(_, _)
SortFrom(sorted, cs) ==
    IF cs = <<>> THEN sorted
    ELSE SortFrom(InsertByQuality(sorted, Head(cs)), Tail(cs))

SortByQuality(cs) == SortFrom(<<>>, cs)

\* a loop that runs once more
LoopNextOffByOne(n) == IF n + 1 <= Attempts THEN "scan50" ELSE "scan55"

\* where the loop goes after the except clause of iteration n
LoopNext(n) == IF n + 1 < Attempts THEN "scan50" ELSE "scan55"

ScanCall ==
    /\ pc = "idle"
    /\ pc' = "scan50"
    /\ op' = Call("list_available_wifis", None_, None_)
    /\ trace' = <<>>
    /\ result' = "pending"
    /\ i' = 0
    /\ cells' = <<>>
    /\ unique_cells' = <<>>
    /\ UNCHANGED <<edVars, fileVars, svc, histVars>>

\* wifi.Cell.all returns: break
Scan50_Ok(found) ==
    /\ pc = "scan50"
    /\ cells' = found
    /\ trace' = Append(trace, "scan ok")
    /\ pc' = "scan55"
    /\ UNCHANGED <<op, result, i, unique_cells>>
    /\ UNCHANGED <<edVars, fileVars, svc, histVars>>

\* wifi.Cell.all raises InterfaceError
Scan50_InterfaceError ==
    /\ pc = "scan50"
    /\ trace' = Append(trace, "scan InterfaceError")
    /\ pc' = "scan53"
    /\ UNCHANGED <<op, result, i, cells, unique_cells>>
    /\ UNCHANGED <<edVars, fileVars, svc, histVars>>

\* the except clause: ifconfig up, sleep, next iteration
Scan53 ==
    /\ pc = "scan53"
    /\ trace' = Append(trace, "ifconfig up")
    /\ i' = i + 1
    /\ pc' = LoopNext(i)
    /\ UNCHANGED <<op, result, cells, unique_cells>>
    /\ UNCHANGED <<edVars, fileVars, svc, histVars>>

Scan55 ==
    /\ pc = "scan55"
    /\ unique_cells' = SortByQuality(UniqueBySsid(<<>>, cells))
    /\ result' = "list"
    /\ pc' = "idle"
    /\ UNCHANGED <<op, trace, i, cells>>
    /\ UNCHANGED <<edVars, fileVars, svc, histVars>>

---------------------------------------------------------------------------
(* Specifications *)
EdIdle ==
    /\ file = <<>>
    /\ edits = <<>>
    /\ nEdits = 0

ScanIdle ==
    /\ i = 0
    /\ cells = <<>>
    /\ unique_cells = <<>>

CallIdle ==
    /\ pc = "idle"
    /\ op = Call("none", None_, None_)
    /\ trace = <<>>
    /\ result = "pending"

CtlInit ==
    /\ dhcpcd_conf \in InitDhcpcdConfs
    /\ wpa_conf = <<Lit("ctrl_interface=/var/run/wpa_supplicant"), NL>>
    /\ hostapd_conf = InitHostapdConf
    /\ \E ap \in BOOLEAN, dh \in BOOLEAN :
          svc = [hostapd |-> ap, dnsmasq |-> ap, enabled |-> ap, dhcpcd |-> dh]
    /\ pre = Snapshot
    /\ lastTransition = "none"
    /\ nCalls = 0

\* the block editor on any file
EditorInit ==
    /\ file \in InitFiles
    /\ edits = <<>>
    /\ nEdits = 0
    /\ CtlInit /\ dhcpcd_conf = <<>> /\ ~svc.hostapd /\ ~svc.dhcpcd
    /\ CallIdle /\ ScanIdle

\* the block editor on a file that holds no marker
EditorCleanInit ==
    /\ EditorInit
    /\ file \in CleanFiles

EditorNext ==
    \/ \E entry \in EdEntries, id \in EdIds : AddEntry(entry, id)
    \/ \E id \in EdIds : RemoveEntry(id)

SpecEditor      == EditorInit /\ [][EditorNext]_vars
SpecEditorClean == EditorCleanInit /\ [][EditorNext]_vars

\* the mode controller
Init == EdIdle /\ CtlInit /\ CallIdle /\ ScanIdle

Next ==
    \/ \E ssid \in Ssids, password \in Passwords : SetCliModeCall(ssid, password)
    \/ Cli65 \/ Cli66 \/ Cli68 \/ Cli74 \/ Cli77 \/ Cli78 \/ Cli79 \/ Cli82
    \/ SetApModeCall
    \/ Ap91 \/ Ap92 \/ Ap94 \/ Ap97 \/ Ap98 \/ Ap99
    \/ GetModeCall
    \/ \E n \in ApNames, p \in ApPasswords : SetApCredentialsCall(n, p)
    \/ Cred108 \/ Cred109 \/ Cred111 \/ Cred112

Spec == Init /\ [][Next]_vars

\* the scanner
ScanInit ==
    /\ EdIdle /\ CallIdle /\ ScanIdle
    /\ CtlInit /\ dhcpcd_conf = <<>> /\ ~svc.hostapd /\ ~svc.dhcpcd

ScanStep ==
    \/ \E found \in ScanLists : Scan50_Ok(found)
    \/ Scan50_InterfaceError
    \/ Scan53
    \/ Scan55

ScanNext == ScanCall \/ ScanStep

\* the handler is synchronous: once called it runs each statement in turn
SpecScan == ScanInit /\ [][ScanNext]_vars /\ WF_vars(ScanStep)

---------------------------------------------------------------------------
(* Properties of the block editor *)
LastEdit == edits[Len(edits)]

TwoEdits(first, second) ==
    /\ Len(edits) = 2
    /\ edits[1].op = first
    /\ edits[2].op = second
    /\ edits[1].id = edits[2].id

\* delimited entries of id: blocks that begin with its begin marker
EntryCount(s, id) == Count(s, BeginMarker(id))

\* C1: calling write_block twice in a row with the same identifier and entry
\* text leaves the file as it was after the first call, holding exactly one
\* delimited entry of that identifier.
C1_WriteIdempotent ==
    (TwoEdits("write", "write") /\ edits[1].entry = edits[2].entry)
        => /\ file = edits[2].pre
           /\ EntryCount(file, edits[2].id) = 1
           /\ Count(file, EndMarker(edits[2].id)) = 1

\* C2: on a file without a marker of the identifier, write_block followed by
\* remove_block restores the content the file had before the write_block.
C2_RoundTrip ==
    (TwoEdits("write", "remove") /\ ~HasMarker(edits[1].pre, edits[1].id))
        => file = edits[1].pre

\* C3: from a file without markers, every sequence of write_block and
\* remove_block calls leaves at most one begin and one end marker per
\* identifier, and right after a write_block the file ends with the one entry
\* of that identifier, wrapping the text just written.
C3_AtMostOneEntry ==
    /\ \A id \in EdIds :
          Count(file, BeginMarker(id)) <= 1 /\ Count(file, EndMarker(id)) <= 1
    /\ (edits # <<>> /\ LastEdit.op = "write")
          => /\ EntryCount(file, LastEdit.id) = 1
             /\ Count(file, EndMarker(LastEdit.id)) = 1
             /\ EndsWith(file, EntryBlock(LastEdit.entry, LastEdit.id))

\* a second write of another text has replaced the entry of the first
C3_Witness ==
    /\ TwoEdits("write", "write")
    /\ edits[1].entry # edits[2].entry
    /\ HasMarker(edits[2].pre, edits[2].id)
    /\ nEdits = 3

\* re.sub of the block pattern with the shortest span, ".+?"
RECURSIVE RemoveShortestFrom(_, _, _)
RemoveShortestFrom(s, p, id) ==
    IF p > Len(s) THEN <<>>
    ELSE LET q == ShortestBlockEnd(s, p, id)
         IN  IF q >= p THEN RemoveShortestFrom(s, q + 1, id)
             ELSE <<s[p]>> \o RemoveShortestFrom(s, p + 1, id)

NoCompleteSpan(s, id) ==
    ~\E p \in 1..Len(s), q \in 1..Len(s) :
        p < q /\ s[p] = BeginMarker(id) /\ s[q] = EndMarker(id)

\* two entries of id with text between the first end and the second begin
TwoEntriesWithGap(s, id) ==
    LET bs == {p \in 1..Len(s) : s[p] = BeginMarker(id)}
        es == {p \in 1..Len(s) : s[p] = EndMarker(id)}
    IN  /\ Cardinality(bs) = 2 /\ Cardinality(es) = 2
        /\ Min(bs) + 1 < Min(es)
        /\ Min(es) + 1 < Max(bs)
        /\ Max(bs) + 1 < Max(es)

\* C4: remove_block deletes the shortest begin-to-end spans only: of a file
\* with two entries of the identifier and text between them it leaves that
\* text, and a file without a complete span it leaves as it is.
C4_ShortestSpan ==
    (edits # <<>> /\ LastEdit.op = "remove")
        => /\ TwoEntriesWithGap(LastEdit.pre, LastEdit.id)
                => file = RemoveShortestFrom(LastEdit.pre, 1, LastEdit.id)
           /\ NoCompleteSpan(LastEdit.pre, LastEdit.id) => file = LastEdit.pre

---------------------------------------------------------------------------
(* Properties of the mode controller *)
\* an argument that carries text: neither None nor ""
Given(a) == ~a.none /\ a.text # <<>>

Completed(name) == pc = "idle" /\ op.name = name /\ result # "pending"

Positions(event) == {k \in 1..Len(trace) : trace[k] = event}

ServiceCommands ==
    {"service dhcpcd stop", "service dhcpcd start",
     "systemctl stop hostapd dnsmasq", "systemctl start hostapd dnsmasq",
     "systemctl enable hostapd dnsmasq", "systemctl disable hostapd dnsmasq",
     "systemctl restart hostapd"}

\* C5: after set_cli_mode(ssid, password) has completed, the WPA supplicant
\* config holds no plaintext-password comment line #psk="<password>" and
\* holds the derived key line psk=<hash>.
C5_PassphraseScrubbed ==
    (Completed("set_cli_mode") /\ result = "True" /\ Given(op.a))
        => /\ ~Contains(wpa_conf, PlainPskLine(op.b.text))
           /\ Contains(wpa_conf, KeyLine(op.a.text, op.b.text))

\* C6: set_cli_mode without a password (None or "") returns False, runs no
\* command and edits no file: the three configs and the services are as
\* they were before the call.
C6_ClientModeGuard ==
    (op.name = "set_cli_mode" /\ ~Given(op.b))
        => /\ pc = "idle"
           /\ result = "False"
           /\ trace = <<>>
           /\ Snapshot = pre

\* the guard has answered a call made in access-point mode
C6_Witness ==
    /\ Completed("set_cli_mode")
    /\ Given(op.a) /\ ~op.b.none /\ ~Given(op.b)
    /\ result = "False"
    /\ lastTransition = "AP"

\* C9: set_ap_credentials restarts the access-point daemon exactly when the
\* daemon was active (ACCESS_POINT mode) at the call, the restart comes after
\* both settings were written to the access-point config, and in CLIENT mode
\* no service is restarted, started or stopped.
C9_RestartIffAccessPoint ==
    op.name = "set_ap_credentials" =>
        LET restarts == Positions("systemctl restart hostapd")
        IN  /\ Completed("set_ap_credentials")
                => (restarts # {} <=> pre.svc.hostapd)
            /\ \A k \in restarts :
                /\ \E a \in Positions("edit hostapd.conf ssid"),
                      b \in Positions("edit hostapd.conf wpa_passphrase") :
                        a < k /\ b < k
                /\ Contains(hostapd_conf, <<Lit("ssid=")>> \o op.a.text \o <<NL>>)
                /\ Contains(hostapd_conf,
                            <<Lit("wpa_passphrase=")>> \o op.b.text \o <<NL>>)
            /\ ~pre.svc.hostapd
                => /\ svc = pre.svc
                   /\ \A k \in 1..Len(trace) : trace[k] \notin ServiceCommands

\* the daemon was restarted with the new settings in place
C9_Witness ==
    /\ Completed("set_ap_credentials")
    /\ pre.svc.hostapd
    /\ Positions("systemctl restart hostapd") = {4}
    /\ hostapd_conf # pre.hostapd_conf

StaticIpEntry == EntryBlock(dhcpcd_conf_entry, IDENTIFIER)

\* C10: from a DHCP client config without markers, after completed
\* set_ap_mode and set_cli_mode(password) calls the config holds exactly one
\* static-IP entry if the last completed transition was set_ap_mode and none
\* if it was set_cli_mode; in both the DHCP client service is stopped before
\* the config is edited and started again only after the edit.
C10_StaticIpFollowsTransition ==
    /\ (pc = "idle" /\ lastTransition = "AP")
          => /\ EntryCount(dhcpcd_conf, IDENTIFIER) = 1
             /\ Count(dhcpcd_conf, EndMarker(IDENTIFIER)) = 1
             /\ Contains(dhcpcd_conf, StaticIpEntry)
    /\ (pc = "idle" /\ lastTransition = "CLI")
          => ~HasMarker(dhcpcd_conf, IDENTIFIER)
    /\ pc \in {"ap94", "cli74"} => ~svc.dhcpcd
    /\ \A k \in Positions("edit dhcpcd.conf") :
          /\ \E j \in Positions("service dhcpcd stop") : j < k
          /\ \A j \in Positions("service dhcpcd start") : k < j
    /\ (Completed("set_ap_mode") \/ (Completed("set_cli_mode") /\ Given(op.b)))
          => /\ Positions("edit dhcpcd.conf") # {}
             /\ Positions("service dhcpcd start") # {}
             /\ svc.dhcpcd

\* access point, client, access point again: the entry is back, once
C10_Witness ==
    /\ Completed("set_ap_mode")
    /\ lastTransition = "AP"
    /\ nCalls = 3
    /\ HasMarker(pre.dhcpcd_conf, IDENTIFIER) = FALSE
    /\ pre.dhcpcd_conf # <<>>
    /\ Len(dhcpcd_conf) > Len(StaticIpEntry) + 2

---------------------------------------------------------------------------
(* Properties of the scanner *)
ScanAttempts == Positions("scan ok") \cup Positions("scan InterfaceError")

C7_Bounded ==
    op.name = "list_available_wifis" =>
        /\ Cardinality(ScanAttempts) <= 3
        /\ \A k \in Positions("scan ok") : \A j \in ScanAttempts : j <= k
        /\ \A k \in Positions("ifconfig up") :
              k > 1 /\ trace[k - 1] = "scan InterfaceError"
        /\ (pc = "idle" /\ Cardinality(Positions("scan InterfaceError")) = 3)
              => result = "list" /\ unique_cells = <<>>

Ssid(cs) == {cs[k].ssid : k \in 1..Len(cs)}

LastWith(cs, name) == cs[Max({k \in 1..Len(cs) : cs[k].ssid = name})]

\* C8: of the cells of a successful scan list_available_wifis returns one per
\* network name, the last one of that name in the scan, in the order of
\* non-increasing signal quality.
C8_DedupSorted ==
    (Completed("list_available_wifis") /\ Positions("scan ok") # {})
        => /\ Ssid(unique_cells) = Ssid(cells)
           /\ Len(unique_cells) = Cardinality(Ssid(cells))
           /\ \A k \in 1..Len(unique_cells) :
                 unique_cells[k] = LastWith(cells, unique_cells[k].ssid)
           /\ \A k \in 1..(Len(unique_cells) - 1) :
                 unique_cells[k].quality >= unique_cells[k + 1].quality

\* the scan [A:1, B:2, A:3] gives [A:3, B:2]
C8_Witness ==
    /\ Completed("list_available_wifis")
    /\ cells = <<Cell("A", 1), Cell("B", 2), Cell("A", 3)>>
    /\ unique_cells = <<Cell("A", 3), Cell("B", 2)>>

====
